---- MODULE Spec2Model ----
(***************************************************************************)
(* Model of src/main.py of the bill-diff-tool: the speech text normalizer  *)
(* preprocess_text_for_speech (an ordered table of re.sub substitutions)   *)
(* and the request handler compare_and_speak with its two collaborators    *)
(* (the LLM and the speech synthesizer).                                   *)
(*                                                                         *)
(* A text is a sequence of cells [c |-> character, o |-> origin].  The     *)
(* character is a one-character string.  The origin is a ghost field the   *)
(* code never reads: cell i of the normalizer's input has origin i, and a  *)
(* cell written by a replacement has origin -j, where j is the origin (in  *)
(* absolute value) of the first cell of the match it replaces.  It lets a  *)
(* property speak of "the characters of that URL" or "the code at that     *)
(* position".  Only ASCII input is modelled (Python's \w, \d and \s also   *)
(* match non-ASCII letters, digits and spaces).                            *)
(***************************************************************************)
EXTENDS Integers, Sequences, FiniteSets, TLC

VARIABLES
    \* preprocess_text_for_speech
    text,           \* the parameter `text`
    processed_text, \* the local `processed_text`
    rule,           \* index of the next entry of `replacements` (the for loop)
    \* compare_and_speak
    pc,             \* the statement the handler is at
    request,        \* the CompareRequest
    response,       \* what model.generate_content returned
    summary_text,   \* the local `summary_text`
    spoken_text,    \* the local `spoken_text`
    audio_content,  \* speech_response.audio_content
    audio_base64,   \* the local `audio_base64`
    e,              \* the exception the outer handler catches
    tts_e,          \* the exception the inner (speech) handler catches
    result,         \* what the caller of the handler receives
    \* the collaborators' logs (ghost)
    llm_prompts,    \* the prompts generate_content was called with
    tts_clients,    \* the number of TextToSpeechClient() constructions
    tts_inputs,     \* the texts synthesize_speech was called with
    normalized      \* the texts preprocess_text_for_speech was called with

normVars == <<text, processed_text, rule>>
handlerVars == <<pc, request, response, summary_text, spoken_text,
                 audio_content, audio_base64, e, tts_e, result,
                 llm_prompts, tts_clients, tts_inputs, normalized>>
vars == <<normVars, handlerVars>>

----------------------------------------------------------------------------
(* Characters and the classes Python's re module tests.                    *)

Upper == {"A","B","C","D","E","F","G","H","I","J","K","L","M",
          "N","O","P","Q","R","S","T","U","V","W","X","Y","Z"}
Lower == {"a","b","c","d","e","f","g","h","i","j","k","l","m",
          "n","o","p","q","r","s","t","u","v","w","x","y","z"}
Digit == {"0","1","2","3","4","5","6","7","8","9"}

\* \s
IsSpace(c) == c \in {" ", "\t", "\n", "\r", "\f"}
\* \d
IsDigit(c) == c \in Digit
\* \w : letters, digits and the underscore
IsWord(c) == c \in Upper \cup Lower \cup Digit \cup {"_"}

Abs(n) == IF n < 0 THEN -n ELSE n

\* A replacement text written over a match whose first cell is `first`.
Lit(s, first) == [i \in 1..Len(s) |-> [c |-> s[i], o |-> -Abs(first.o)]]
\* An input string: cell i has origin i.
Mark(s) == [i \in 1..Len(s) |-> [c |-> s[i], o |-> i]]
\* The string of a text.
Chars(t) == [i \in 1..Len(t) |-> t[i].c]

\* The character at position i of t, "" past either end.
At(t, i) == IF i >= 1 /\ i <= Len(t) THEN t[i].c ELSE ""

\* t[i..] starts with the characters of s.
StartsWith(t, i, s) == \A k \in 1..Len(s) : At(t, i + k - 1) = s[k]

\* \b at the gap before position i: exactly one side is a word character.
Boundary(t, i) == IsWord(At(t, i - 1)) # IsWord(At(t, i))

\* Length of the maximal run of characters satisfying \s (resp. \S) from i.
RECURSIVE SpaceRun(_, _)
SpaceRun(t, i) == IF IsSpace(At(t, i)) THEN 1 + SpaceRun(t, i + 1) ELSE 0

RECURSIVE NonSpaceRun(_, _)
NonSpaceRun(t, i) ==
    IF i <= Len(t) /\ ~IsSpace(At(t, i)) THEN 1 + NonSpaceRun(t, i + 1) ELSE 0

----------------------------------------------------------------------------
(* The patterns of the table.  MatchLen(p, t, i) is the length of the      *)
(* match of pattern p that re finds starting at position i of t, 0 when    *)
(* there is none (no pattern of the table matches the empty string).       *)

\* \bXX\s*(?=\d) : \s* is greedy; giving back a space leaves a space, not
\* a digit, under the lookahead, so only the maximal run can match.
MatchCodeNum(code, t, i) ==
    IF /\ Boundary(t, i)
       /\ StartsWith(t, i, code)
       /\ IsDigit(At(t, i + Len(code) + SpaceRun(t, i + Len(code))))
    THEN Len(code) + SpaceRun(t, i + Len(code))
    ELSE 0

\* Mutant of MatchCodeWord: the leading \b is missing (the pattern XX\b).
MatchCodeWordNoLeft(code, t, i) ==
    IF StartsWith(t, i, code) /\ Boundary(t, i + Len(code))
    THEN Len(code)
    ELSE 0

\* \bXX\b
MatchCodeWord(code, t, i) ==
    IF /\ Boundary(t, i)
       /\ StartsWith(t, i, code)
       /\ Boundary(t, i + Len(code))
    THEN Len(code)
    ELSE 0

\* A character class or a single literal character.
MatchClass(set, t, i) == IF At(t, i) \in set THEN 1 ELSE 0

\* https?://\S+
MatchUrl(t, i) ==
    LET http == <<"h","t","t","p">>
        sep  == <<":","/","/">>
        s    == IF At(t, i + 4) = "s" THEN 1 ELSE 0
        body == NonSpaceRun(t, i + 4 + s + 3)
    IN  IF /\ StartsWith(t, i, http)
           /\ StartsWith(t, i + 4 + s, sep)
           /\ body >= 1
        THEN 4 + s + 3 + body
        ELSE 0

\* \s+
MatchSpaces(t, i) == SpaceRun(t, i)

MatchLen(p, t, i) ==
    CASE p.kind = "codenum"  -> MatchCodeNum(p.arg, t, i)
      [] p.kind = "codeword" -> MatchCodeWord(p.arg, t, i)
      [] p.kind = "class"    -> MatchClass(p.arg, t, i)
      [] p.kind = "url"      -> MatchUrl(t, i)
      [] p.kind = "spaces"   -> MatchSpaces(t, i)

\* re.sub(pattern, replacement, t): the leftmost non-overlapping matches,
\* scanned from position i, each replaced by the replacement text.
RECURSIVE SubFrom(_, _, _, _)
SubFrom(p, repl, t, i) ==
    IF i > Len(t) THEN <<>>
    ELSE LET n == MatchLen(p, t, i)
         IN  IF n > 0
             THEN Lit(repl, t[i]) \o SubFrom(p, repl, t, i + n)
             ELSE <<t[i]>> \o SubFrom(p, repl, t, i + 1)

\* Mutant of Sub: only the first match is replaced (re.sub with count=1).
RECURSIVE SubOnceFrom(_, _, _, _)
SubOnceFrom(p, repl, t, i) ==
    IF i > Len(t) THEN <<>>
    ELSE LET n == MatchLen(p, t, i)
         IN  IF n > 0
             THEN Lit(repl, t[i]) \o SubSeq(t, i + n, Len(t))
             ELSE <<t[i]>> \o SubOnceFrom(p, repl, t, i + 1)

SubOnce(p, repl, t) == SubOnceFrom(p, repl, t, 1)

Sub(p, repl, t) == SubFrom(p, repl, t, 1)

----------------------------------------------------------------------------
(* The table `replacements` of preprocess_text_for_speech, in its order.   *)

HB == <<"H","B">>
SB == <<"S","B">>
HD == <<"H","D">>
SD == <<"S","D">>
CD == <<"C","D">>
FD == <<"F","D">>
GM == <<"G","M">>

HouseBill       == <<"H","o","u","s","e"," ","B","i","l","l">>
SenateBill      == <<"S","e","n","a","t","e"," ","B","i","l","l">>
HouseDraft      == <<"H","o","u","s","e"," ","D","r","a","f","t">>
SenateDraft     == <<"S","e","n","a","t","e"," ","D","r","a","f","t">>
ConferenceDraft == <<"C","o","n","f","e","r","e","n","c","e"," ","D","r","a","f","t">>
FinalDraft      == <<"F","i","n","a","l"," ","D","r","a","f","t">>
GovernorsMessage ==
    <<"G","o","v","e","r","n","o","r","'","s"," ","M","e","s","s","a","g","e">>

\* Mutant of Stripped: the apostrophe is missing from the class.
StrippedNoApostrophe == {"\"", "(", ")", "*", "[", "]", "{", "}"}

\* ["'()*\[\]{}]
Stripped == {"\"", "'", "(", ")", "*", "[", "]", "{", "}"}

CodeNum(code, words) ==
    [kind |-> "codenum", arg |-> code, repl |-> words \o <<" ">>]
CodeWord(code, words) ==
    [kind |-> "codeword", arg |-> code, repl |-> words]
Class(set, repl) == [kind |-> "class", arg |-> set, repl |-> repl]

replacements == <<
    CodeNum(HB, HouseBill),        CodeWord(HB, HouseBill),
    CodeNum(SB, SenateBill),       CodeWord(SB, SenateBill),
    CodeNum(HD, HouseDraft),       CodeWord(HD, HouseDraft),
    CodeNum(SD, SenateDraft),      CodeWord(SD, SenateDraft),
    CodeNum(CD, ConferenceDraft),  CodeWord(CD, ConferenceDraft),
    CodeNum(FD, FinalDraft),       CodeWord(FD, FinalDraft),
    CodeNum(GM, GovernorsMessage), CodeWord(GM, GovernorsMessage),
    Class(Stripped, <<>>),
    Class({"§"}, <<"S","e","c","t","i","o","n"," ">>),
    Class({"&"}, <<" ","a","n","d"," ">>),
    Class({"_"}, <<" ">>),
    [kind |-> "url", arg |-> <<>>, repl |-> <<>>],
    Class({"%"}, <<" ","p","e","r","c","e","n","t"," ">>),
    Class({"+"}, <<" ","p","l","u","s"," ">>),
    Class({"="}, <<" ","e","q","u","a","l","s"," ">>),
    [kind |-> "spaces", arg |-> <<>>, repl |-> <<" ">>]
>>

\* One iteration of the loop: processed_text = re.sub(pattern, replacement,
\* processed_text) for entry k of the table.
ApplyRule(k, t) == Sub(replacements[k], replacements[k].repl, t)

\* The loop from entry k to the end of the table.
RECURSIVE ApplyFrom(_, _)
ApplyFrom(k, t) ==
    IF k > Len(replacements) THEN t ELSE ApplyFrom(k + 1, ApplyRule(k, t))

\* preprocess_text_for_speech(text), as a function of the string.
Preprocess(s) == Chars(ApplyFrom(1, Mark(s)))

----------------------------------------------------------------------------
(* The inputs explored: every concatenation of at most MaxFrags fragments  *)
(* of one family.                                                          *)

MaxFrags == 3

RECURSIVE Words(_, _)
Words(F, n) ==
    IF n = 0 THEN {<<>>}
    ELSE LET W == Words(F, n - 1) IN W \cup {w \o f : w \in W, f \in F}

Codes == {HB, SB, HD, SD, CD, FD, GM}

\* one code with a digit, a space and a letter around it
CodeFamily(code) == {code, <<"1">>, <<" ">>, <<"X">>}
\* case variants and another whitespace character
CaseFamily == {HB, <<"h","b">>, <<"H","b">>, <<"1">>, <<"\t">>}
\* URLs, with a code and a character an earlier rule rewrites
Http  == <<"h","t","t","p",":","/","/">>
Https == <<"h","t","t","p","s",":","/","/">>
UrlFamily == {Http, Https, <<"x">>, <<"&">>, <<" ">>, HB}
\* a URL with the other characters earlier rules rewrite
UrlSymbolFamily == {Http, <<"x">>, <<"&">>, <<"_">>, <<"§">>}
\* a code split by, or next to, a character a later rule deletes
SplitFamily == {<<"H">>, <<"B">>, <<"'">>, <<"_">>, <<"1">>}
\* the deleted characters
QuoteFamily == {<<c>> : c \in Stripped \cup {" "}}
\* the verbalized characters and the whitespace characters
SymbolFamily ==
    {<<c>> : c \in {"§", "&", "_", "%", "+", "=", " ", "\t", "\n", "a"}}

Inputs ==
    UNION {Words(CodeFamily(code), MaxFrags) : code \in Codes}
    \cup Words(CaseFamily, MaxFrags)
    \cup Words(UrlFamily, MaxFrags)
    \cup Words(UrlSymbolFamily, MaxFrags - 1)
    \cup Words(SplitFamily, MaxFrags)
    \cup Words(QuoteFamily, MaxFrags - 1)
    \cup Words(SymbolFamily, MaxFrags - 1)

----------------------------------------------------------------------------
(* preprocess_text_for_speech as a process: one step per table entry.      *)

\* Python's None, among values that are sequences of strings
None == <<"None">>

\* no request is being handled
HandlerIdle ==
    /\ pc = "idle"
    /\ request = [bill1_text |-> <<>>, bill2_text |-> <<>>]
    /\ response = [kind |-> "none", text |-> <<>>]
    /\ summary_text = None
    /\ spoken_text = None
    /\ audio_content = None
    /\ audio_base64 = None
    /\ e = None
    /\ tts_e = None
    /\ result = None
    /\ llm_prompts = <<>>
    /\ tts_clients = 0
    /\ tts_inputs = <<>>
    /\ normalized = <<>>

InitNorm ==
    /\ text \in {Mark(s) : s \in Inputs}
    /\ processed_text = text
    /\ rule = 1
    /\ HandlerIdle

ApplyReplacement ==
    /\ pc = "idle"
    /\ rule <= Len(replacements)
    /\ processed_text' = ApplyRule(rule, processed_text)
    /\ rule' = rule + 1
    /\ UNCHANGED <<text, handlerVars>>

NextNorm == ApplyReplacement

SpecNorm == InitNorm /\ [][NextNorm]_vars

\* the loop has ended: processed_text is the value returned
Returned == pc = "idle" /\ rule = Len(replacements) + 1

----------------------------------------------------------------------------
(* compare_and_speak.  Strings are sequences of one-character strings; a   *)
(* fixed piece of text (the prompt template, a message) is one element.    *)

\* str.strip(): leading and trailing whitespace removed
RECURSIVE LStrip(_)
LStrip(s) == IF s # <<>> /\ IsSpace(Head(s)) THEN LStrip(Tail(s)) ELSE s

RECURSIVE RStrip(_)
RStrip(s) ==
    IF s # <<>> /\ IsSpace(s[Len(s)]) THEN RStrip(SubSeq(s, 1, Len(s) - 1)) ELSE s

Strip(s) == RStrip(LStrip(s))

\* the f-string of the prompt: the template with the two texts interpolated
PromptHead   == <<"Role: Senior Legislative Analyst ... First Bill Text:\n">>
PromptMiddle == <<"\n\nSecond Bill Text:\n">>
PromptTail   == <<"\n">>
Prompt(req) ==
    PromptHead \o req.bill1_text \o PromptMiddle \o req.bill2_text \o PromptTail

\* base64.b64encode(...).decode('utf-8')
Base64(bytes) == <<"base64">> \o bytes

\* CompareResponse(summary=..., audio_base64=..., success=..., error=...)
CompareResponse(summary, audio, success, error) ==
    [summary |-> summary, audio_base64 |-> audio, success |-> success,
     error |-> error]

\* the bill texts of the requests explored
BillTexts == {<<>>, <<" ", "\n">>, <<"a">>, <<" ", "S", "B", "1", " ">>}

\* the texts the LLM may return
SummaryFamily == {HB, <<"1">>, <<" ">>, <<"&">>}
Summaries == Words(SummaryFamily, MaxFrags) \ {<<>>}

\* what generate_content may return: None, a response whose .text raises
\* (no candidate), a response with empty text, a response with text
Responses ==
    {[kind |-> "none", text |-> <<>>], [kind |-> "blocked", text |-> <<>>],
     [kind |-> "text", text |-> <<>>]}
    \cup {[kind |-> "text", text |-> s] : s \in Summaries}

\* str(e) of what a collaborator may raise (possibly the empty string)
CollaboratorErrors == {<<>>, <<"service error">>}

Init ==
    /\ pc = "validate"
    /\ request \in [bill1_text : BillTexts, bill2_text : BillTexts]
    /\ response = [kind |-> "none", text |-> <<>>]
    /\ summary_text = None
    /\ spoken_text = None
    /\ audio_content = None
    /\ audio_base64 = None
    /\ e = None
    /\ tts_e = None
    /\ result = None
    /\ llm_prompts = <<>>
    /\ tts_clients = 0
    /\ tts_inputs = <<>>
    /\ normalized = <<>>
    /\ text = <<>>
    /\ processed_text = <<>>
    /\ rule = 1

\* if not request.bill1_text.strip() or not request.bill2_text.strip():
\*     raise HTTPException(status_code=400, detail=...)
\* The raise is inside the outer try; HTTPException is an Exception.
Validate ==
    /\ pc = "validate"
    /\ IF Strip(request.bill1_text) = <<>> \/ Strip(request.bill2_text) = <<>>
       THEN /\ e' = <<"400: Both bill texts must be provided">>
            /\ pc' = "except"
       ELSE /\ pc' = "llm"
            /\ UNCHANGED e
    /\ UNCHANGED <<normVars, request, response, summary_text, spoken_text,
                   audio_content, audio_base64, tts_e, result, llm_prompts,
                   tts_clients, tts_inputs, normalized>>

\* prompt = f"""..."""; response = model.generate_content(prompt)
CallLLM ==
    /\ pc = "llm"
    /\ llm_prompts' = Append(llm_prompts, Prompt(request))
    /\ \/ \E r \in Responses :
              /\ response' = r
              /\ pc' = "check"
              /\ UNCHANGED e
       \/ \E msg \in CollaboratorErrors :
              /\ e' = msg
              /\ pc' = "except"
              /\ UNCHANGED response
    /\ UNCHANGED <<normVars, request, summary_text, spoken_text, audio_content,
                   audio_base64, tts_e, result, tts_clients, tts_inputs,
                   normalized>>

\* Mutant of CheckResponse: only `if not response` is tested.
CheckResponseNoText ==
    /\ pc = "check"
    /\ IF response.kind = "none"
       THEN /\ e' = <<"Gemini API returned empty response">>
            /\ pc' = "except"
            /\ UNCHANGED <<summary_text, audio_base64>>
       ELSE /\ summary_text' = response.text
            /\ audio_base64' = None
            /\ pc' = "tts_client"
            /\ UNCHANGED e
    /\ UNCHANGED <<normVars, request, response, spoken_text, audio_content,
                   tts_e, result, llm_prompts, tts_clients, tts_inputs,
                   normalized>>

\* if not response or not response.text: raise Exception(...)
\* summary_text = response.text; audio_base64 = None
CheckResponse ==
    /\ pc = "check"
    /\ IF response.kind = "none"
       THEN /\ e' = <<"Gemini API returned empty response">>
            /\ pc' = "except"
            /\ UNCHANGED <<summary_text, audio_base64>>
       ELSE IF response.kind = "blocked"
       THEN /\ e' = <<"response.text: no valid candidate">>
            /\ pc' = "except"
            /\ UNCHANGED <<summary_text, audio_base64>>
       ELSE IF response.text = <<>>
       THEN /\ e' = <<"Gemini API returned empty response">>
            /\ pc' = "except"
            /\ UNCHANGED <<summary_text, audio_base64>>
       ELSE /\ summary_text' = response.text
            /\ audio_base64' = None
            /\ pc' = "tts_client"
            /\ UNCHANGED e
    /\ UNCHANGED <<normVars, request, response, spoken_text, audio_content,
                   tts_e, result, llm_prompts, tts_clients, tts_inputs,
                   normalized>>

\* client = texttospeech.TextToSpeechClient()
TtsClient ==
    /\ pc = "tts_client"
    /\ tts_clients' = tts_clients + 1
    /\ \/ /\ pc' = "normalize"
          /\ UNCHANGED tts_e
       \/ \E msg \in CollaboratorErrors :
              /\ tts_e' = msg
              /\ pc' = "tts_except"
    /\ UNCHANGED <<normVars, request, response, summary_text, spoken_text,
                   audio_content, audio_base64, e, result, llm_prompts,
                   tts_inputs, normalized>>

\* spoken_text = preprocess_text_for_speech(summary_text)
Normalize ==
    /\ pc = "normalize"
    /\ normalized' = Append(normalized, summary_text)
    /\ text' = Mark(summary_text)
    /\ processed_text' = ApplyFrom(1, text')
    /\ rule' = Len(replacements) + 1
    /\ spoken_text' = Chars(processed_text')
    /\ pc' = "synthesize"
    /\ UNCHANGED <<request, response, summary_text, audio_content,
                   audio_base64, e, tts_e, result, llm_prompts, tts_clients,
                   tts_inputs>>

\* Mutant of Synthesize: SynthesisInput(text=summary_text).
SynthesizeRaw ==
    /\ pc = "synthesize"
    /\ tts_inputs' = Append(tts_inputs, summary_text)
    /\ \/ /\ audio_content' = <<"mp3">> \o summary_text
          /\ pc' = "encode"
          /\ UNCHANGED tts_e
       \/ \E msg \in CollaboratorErrors :
              /\ tts_e' = msg
              /\ pc' = "tts_except"
              /\ UNCHANGED audio_content
    /\ UNCHANGED <<normVars, request, response, summary_text, spoken_text,
                   audio_base64, e, result, llm_prompts, tts_clients,
                   normalized>>

\* synthesis_input = SynthesisInput(text=spoken_text); voice; audio_config;
\* speech_response = client.synthesize_speech(input=..., voice=..., ...)
Synthesize ==
    /\ pc = "synthesize"
    /\ tts_inputs' = Append(tts_inputs, spoken_text)
    /\ \/ /\ audio_content' = <<"mp3">> \o spoken_text
          /\ pc' = "encode"
          /\ UNCHANGED tts_e
       \/ \E msg \in CollaboratorErrors :
              /\ tts_e' = msg
              /\ pc' = "tts_except"
              /\ UNCHANGED audio_content
    /\ UNCHANGED <<normVars, request, response, summary_text, spoken_text,
                   audio_base64, e, result, llm_prompts, tts_clients,
                   normalized>>

\* audio_base64 = base64.b64encode(speech_response.audio_content).decode(..)
Encode ==
    /\ pc = "encode"
    /\ \/ /\ audio_base64' = Base64(audio_content)
          /\ pc' = "return"
          /\ UNCHANGED tts_e
       \/ /\ tts_e' = <<"a bytes-like object is required">>
          /\ pc' = "tts_except"
          /\ UNCHANGED audio_base64
    /\ UNCHANGED <<normVars, request, response, summary_text, spoken_text,
                   audio_content, e, result, llm_prompts, tts_clients,
                   tts_inputs, normalized>>

\* Mutant of TtsExcept: the inner handler raises the exception again.
TtsExceptReraise ==
    /\ pc = "tts_except"
    /\ audio_base64' = None
    /\ e' = tts_e
    /\ pc' = "except"
    /\ UNCHANGED <<normVars, request, response, summary_text, spoken_text,
                   audio_content, tts_e, result, llm_prompts, tts_clients,
                   tts_inputs, normalized>>

\* except Exception as e: logger.error(...); audio_base64 = None
TtsExcept ==
    /\ pc = "tts_except"
    /\ audio_base64' = None
    /\ pc' = "return"
    /\ UNCHANGED <<normVars, request, response, summary_text, spoken_text,
                   audio_content, e, tts_e, result, llm_prompts, tts_clients,
                   tts_inputs, normalized>>

\* return CompareResponse(summary=summary_text, audio_base64=audio_base64,
\*                        success=True, error=None)
ReturnSuccess ==
    /\ pc = "return"
    /\ result' = [status |-> 200,
                  body |-> CompareResponse(summary_text, audio_base64, TRUE, None)]
    /\ pc' = "done"
    /\ UNCHANGED <<normVars, request, response, summary_text, spoken_text,
                   audio_content, audio_base64, e, tts_e, llm_prompts,
                   tts_clients, tts_inputs, normalized>>

\* except Exception as e: return CompareResponse(summary="",
\*     audio_base64=None, success=False,
\*     error=f"Failed to process request: {str(e)}")
\* A returned model is sent with status 200.
Except ==
    /\ pc = "except"
    /\ result' = [status |-> 200,
                  body |-> CompareResponse(<<>>, None, FALSE,
                               <<"Failed to process request: ">> \o e)]
    /\ pc' = "done"
    /\ UNCHANGED <<normVars, request, response, summary_text, spoken_text,
                   audio_content, audio_base64, e, tts_e, llm_prompts,
                   tts_clients, tts_inputs, normalized>>

Next ==
    \/ Validate
    \/ CallLLM
    \/ CheckResponse
    \/ TtsClient
    \/ Normalize
    \/ Synthesize
    \/ Encode
    \/ TtsExcept
    \/ ReturnSuccess
    \/ Except

Spec == Init /\ [][Next]_vars

----------------------------------------------------------------------------
(* Vocabulary of the properties of the handler.                            *)

\* empty or whitespace-only
Blank(s) == \A i \in 1..Len(s) : IsSpace(s[i])
BlankRequest == Blank(request.bill1_text) \/ Blank(request.bill2_text)

\* s occurs in p as it is
Contains(p, s) ==
    \E k \in 0..(Len(p) - Len(s)) : SubSeq(p, k + 1, k + Len(s)) = s

Done == pc = "done"

(* C4: with a blank bill text the request ends in a 400 error that reaches *)
(* the caller, not in a 200 response body; every other request ends in a   *)
(* 200 response.                                                           *)
C4_BlankIs400 ==
    Done => /\ BlankRequest => result.status = 400
            /\ ~BlankRequest => result.status = 200

(* C5: in every CompareResponse returned, success=false goes with an empty *)
(* summary and a non-empty error, success=true with a non-empty summary    *)
(* and a null error.                                                       *)
C5_ResponseInvariant ==
    Done =>
        LET body == result.body
        IN  /\ ~body.success =>
                   /\ body.summary = <<>>
                   /\ body.error # None
                   /\ body.error # <<>>
            /\ body.success =>
                   /\ body.summary # <<>>
                   /\ body.error = None

\* the LLM returned a response with empty text, and the request failed
C5_Witness ==
    /\ Done
    /\ response = [kind |-> "text", text |-> <<>>]
    /\ ~result.body.success

(* C6: when both bill texts are non-blank and the LLM returned non-empty   *)
(* text, a failure of the speech stage is suppressed: the response has     *)
(* success=true, error=null, audio_base64=null and the LLM's text, as it   *)
(* was returned, as summary.                                               *)
C6_SpeechFailureSuppressed ==
    (Done /\ tts_e # None) =>
        /\ ~BlankRequest
        /\ response.kind = "text"
        /\ response.text # <<>>
        /\ result = [status |-> 200,
                     body |-> CompareResponse(response.text, None, TRUE, None)]

\* synthesize_speech raised on a text that normalization had changed
C6_Witness ==
    /\ Done
    /\ tts_e # None
    /\ tts_inputs # <<>>
    /\ spoken_text # response.text
    /\ result.body.summary = response.text

(* C9: no collaborator is called before validation, and none on a blank    *)
(* request; otherwise the LLM is called exactly once, with a prompt that   *)
(* holds both bill texts as they are; the speech collaborator is called at *)
(* most once, only after the LLM returned non-empty text, on the           *)
(* normalized LLM text; only the LLM text is ever normalized.              *)
C9_CallOrder ==
    /\ Len(llm_prompts) <= 1
    /\ tts_clients <= 1
    /\ Len(tts_inputs) <= 1
    /\ (pc = "validate" \/ BlankRequest) =>
           llm_prompts = <<>> /\ tts_clients = 0 /\ tts_inputs = <<>>
    /\ (Done /\ ~BlankRequest) => Len(llm_prompts) = 1
    /\ \A k \in 1..Len(llm_prompts) :
           /\ Contains(llm_prompts[k], request.bill1_text)
           /\ Contains(llm_prompts[k], request.bill2_text)
    /\ (tts_clients > 0 \/ tts_inputs # <<>>) =>
           /\ Len(llm_prompts) = 1
           /\ response.kind = "text"
           /\ response.text # <<>>
    /\ \A k \in 1..Len(tts_inputs) : tts_inputs[k] = Preprocess(response.text)
    /\ \A k \in 1..Len(normalized) : normalized[k] = response.text

\* a request whose bill text holds a code, sent to the LLM as it is, and a
\* speech call on an LLM text that normalization changed
C9_Witness ==
    /\ Done
    /\ Contains(request.bill1_text, SB \o <<"1">>)
    /\ Len(llm_prompts) = 1
    /\ Len(tts_inputs) = 1
    /\ tts_inputs[1] # response.text

----------------------------------------------------------------------------
(* Vocabulary of the properties of the normalizer.  `text` is the input,   *)
(* `processed_text` the text so far, the return value once Returned.       *)

Expansion(code) ==
    CASE code = HB -> HouseBill
      [] code = SB -> SenateBill
      [] code = HD -> HouseDraft
      [] code = SD -> SenateDraft
      [] code = CD -> ConferenceDraft
      [] code = FD -> FinalDraft
      [] code = GM -> GovernorsMessage

LowerOf(c) ==
    CASE c = "H" -> "h" [] c = "B" -> "b" [] c = "S" -> "s" [] c = "D" -> "d"
      [] c = "C" -> "c" [] c = "F" -> "f" [] c = "G" -> "g" [] c = "M" -> "m"

\* the lower-case and mixed-case spellings of a code
CaseVariants(code) ==
    {<<a, b>> : a \in {code[1], LowerOf(code[1])},
                b \in {code[2], LowerOf(code[2])}} \ {code}

Positions == 1..Len(text)
OutPositions == 1..Len(processed_text)

\* index of the URL entry of the table
UrlRule == CHOOSE k \in 1..Len(replacements) : replacements[k].kind = "url"

\* the code at input position i was replaced by an expansion
Expanded(i) == \E k \in OutPositions : processed_text[k].o = -i
\* the two characters of the code at input position i are still there
Kept(i) ==
    \E k \in OutPositions :
        /\ processed_text[k].o = i
        /\ k + 1 <= Len(processed_text)
        /\ processed_text[k + 1].o = i + 1

\* position of the first non-whitespace character after the code at i
AfterSpaces(i) == i + 2 + SpaceRun(text, i + 2)

\* the code starts at a word boundary at i and a digit follows, directly
\* or after whitespace only
NumberForm(code, i) ==
    /\ StartsWith(text, i, code)
    /\ ~IsWord(At(text, i - 1))
    /\ IsDigit(At(text, AfterSpaces(i)))

\* the code is a standalone word at i
Standalone(code, i) ==
    /\ StartsWith(text, i, code)
    /\ ~IsWord(At(text, i - 1))
    /\ ~IsWord(At(text, i + 2))

\* the characters of s end right before output position k
SpelledBefore(k, s) ==
    /\ k > Len(s)
    /\ \A m \in 1..Len(s) : processed_text[k - Len(s) + m - 1].c = s[m]

\* the cells from output position k spell s and replace the code at i
SpelledAt(k, s, i) ==
    \A m \in 1..Len(s) :
        /\ k + m - 1 <= Len(processed_text)
        /\ processed_text[k + m - 1].c = s[m]
        /\ processed_text[k + m - 1].o = -i

----------------------------------------------------------------------------
(* C1: a code at a word boundary followed, directly or after whitespace    *)
(* only, by a digit: the returned text has the code's expansion, exactly   *)
(* one space and then that digit, and the code itself is gone.             *)
C1_NumberExpansion ==
    Returned =>
        \A code \in Codes : \A i \in Positions :
            NumberForm(code, i) =>
                /\ \E k \in OutPositions :
                       /\ processed_text[k].o = AfterSpaces(i)
                       /\ SpelledBefore(k, Expansion(code) \o <<" ">>)
                /\ \A k \in OutPositions : processed_text[k].o \notin {i, i + 1}

(* C2: every standalone occurrence of a code (word boundary on both sides) *)
(* appears in the returned text as the code's full words, as listed.       *)
C2_StandaloneExpansion ==
    Returned =>
        \A code \in Codes : \A i \in Positions :
            Standalone(code, i) =>
                \E k \in OutPositions : SpelledAt(k, Expansion(code), i)

(* C3: every http/https URL of the input (scheme through the maximal run   *)
(* of non-whitespace characters) is deleted entirely: no character of it,  *)
(* rewritten or not, is left in the returned text.                         *)
C3_UrlDeleted ==
    Returned =>
        \A i \in Positions :
            MatchUrl(text, i) > 0 =>
                \A k \in OutPositions :
                    Abs(processed_text[k].o) \notin i..(i + MatchUrl(text, i) - 1)

----------------------------------------------------------------------------
\* the codes spelled at input position i, in any case
CodesAt(i) ==
    {code \in Codes : /\ At(text, i) \in {code[1], LowerOf(code[1])}
                      /\ At(text, i + 1) \in {code[2], LowerOf(code[2])}}

Alnum == Upper \cup Lower \cup Digit

(* C7 as stated: a code with a letter or a digit adjacent on either side,  *)
(* and every lower-case or mixed-case spelling, is never expanded.         *)
C7_EmbeddedNeverExpanded ==
    \A i \in Positions : \A code \in CodesAt(i) :
        (\/ /\ StartsWith(text, i, code)
            /\ (At(text, i - 1) \in Alnum \/ At(text, i + 2) \in Alnum)
         \/ \E v \in CaseVariants(code) : StartsWith(text, i, v))
        => ~Expanded(i)

\* a word character before the code, or a letter or underscore after it
Embedded(code, i) ==
    /\ StartsWith(text, i, code)
    /\ \/ IsWord(At(text, i - 1))
       \/ At(text, i + 2) \in Upper \cup Lower \cup {"_"}

(* C7 amended: a code with a letter, digit or underscore right before it,  *)
(* or a letter or underscore right after it, and every lower-case or       *)
(* mixed-case spelling, is never expanded: no step of the loop replaces    *)
(* it, and its characters are in the text until the URL rule runs.         *)
C7_TokensOnly ==
    \A i \in Positions : \A code \in CodesAt(i) :
        (Embedded(code, i) \/ \E v \in CaseVariants(code) : StartsWith(text, i, v))
        => /\ ~Expanded(i)
           /\ rule <= UrlRule => Kept(i)

\* an embedded code is returned as it was, beside a code that was expanded
C7_Witness ==
    /\ Returned
    /\ \E code \in Codes : \E i, j \in Positions :
           Embedded(code, i) /\ Kept(i) /\ NumberForm(code, j) /\ Expanded(j)

----------------------------------------------------------------------------
(* C8 as stated: normalizing the returned text again changes nothing, for  *)
(* every input.                                                            *)
C8_Idempotent ==
    Returned => Preprocess(Chars(processed_text)) = Chars(processed_text)

\* no deleted character, no underscore and no URL in the input
Clean(t) ==
    /\ \A i \in 1..Len(t) : t[i].c \notin Stripped \cup {"_"}
    /\ \A i \in 1..Len(t) : MatchUrl(t, i) = 0

(* C8 amended: normalizing the returned text again changes nothing when    *)
(* the input has none of the deleted characters, no underscore and no      *)
(* http/https URL.                                                         *)
C8_IdempotentOnClean ==
    (Returned /\ Clean(text)) =>
        Preprocess(Chars(processed_text)) = Chars(processed_text)

\* a clean input in which a code was expanded and a symbol verbalized
C8_Witness ==
    /\ Returned
    /\ Clean(text)
    /\ \E i, j \in Positions :
           /\ text[i].c \in {"&", "§"}
           /\ Expanded(i)
           /\ Standalone(HB, j)
           /\ Expanded(j)

----------------------------------------------------------------------------
(* C10: the returned text has none of the characters " ' ( ) * [ ] { } §   *)
(* & _ % + =, no whitespace other than the space, no two spaces in a row;  *)
(* an all-whitespace input returns a single space.                         *)
C10_OutputAlphabet ==
    Returned =>
        /\ \A k \in OutPositions :
               /\ processed_text[k].c \notin
                      {"\"", "'", "(", ")", "*", "[", "]", "{", "}",
                       "§", "&", "_", "%", "+", "="}
               /\ IsSpace(processed_text[k].c) => processed_text[k].c = " "
               /\ (k > 1 /\ processed_text[k].c = " ")
                      => processed_text[k - 1].c # " "
        /\ (text # <<>> /\ \A i \in Positions : IsSpace(text[i].c))
               => Chars(processed_text) = <<" ">>

\* the expansion of GM, which is written with an apostrophe, was returned
C10_Witness ==
    /\ Returned
    /\ \E i \in Positions : Standalone(GM, i) /\ Expanded(i)

====
